---- MODULE Spec2Model ----
(***************************************************************************)
(* A model of the GT-511C1R fingerprint sensor driver                      *)
(* (src/FingerprintModule.h, src/FingerprintModule.cpp).                   *)
(*                                                                         *)
(* The driver object owns three fields (mRespStatus, mRespParam,           *)
(* mEnrollmentStage) and the serial receive buffer of COMMS, modelled by   *)
(* the byte sequence rx.  Every command-layer function writes one command  *)
(* packet and then polls recvResponsePkt() up to TIMEOUT times; the device *)
(* is the environment: for each command it delivers some bytes (nothing, a *)
(* response packet, a damaged packet) before one of the polls or after the *)
(* last one.  enrollSequence() is modelled one command-layer call per      *)
(* step, the other public functions one call per step.                     *)
(*                                                                         *)
(* Specifications: CommandSpec (the command-layer functions called in any  *)
(* order), EnrollSpec (enrollSequence called again and again),             *)
(* EnrollFairSpec (the same with a prompt device and weak fairness of the  *)
(* steps), SinkSpec (enrollSequence called with and without an output      *)
(* function, next to a twin run that has none), ReadOnlySpec (a query      *)
(* called twice on an unchanged device), TransportSpec (recvResponsePkt    *)
(* applied to streams of bytes), DesyncSpec (commands whose responses      *)
(* arrive late or in time, with weak fairness) and CodecSpec (the private  *)
(* helpers computeCheckSum, flipEndianness and send applied to test        *)
(* values).                                                                *)
(*                                                                         *)
(* Bytes are the integers 0..255; arrays are 1-based sequences and the     *)
(* operator B(buff, k) reads the element the source calls buff[k].         *)
(* The driver is built for a 32-bit target (the 51846-byte data buffer of  *)
(* the class rules out the 8-bit boards), so int has 32 bits.              *)
(***************************************************************************)
EXTENDS Integers, Sequences, FiniteSets, TLC

(***************************************************************************)
(* Constants of FingerprintModule.h                                        *)
(***************************************************************************)
TIMEOUT == 11
WAITTIME == 500
CMD_START_CODE_1 == 85
CMD_START_CODE_2 == 170
RES_START_CODE_1 == 85
RES_START_CODE_2 == 170
DATA_START_CODE_1 == 90
DATA_START_CODE_2 == 165
DEVICE_ID_MSB == 0
DEVICE_ID_LSB == 1
RESP_PKT_SIZE == 12
DATA_PKT_ADD == 6

CMD_OPEN == 1
CMD_CLOSE == 2
CMD_CHANGE_BAUDRATE == 4
CMD_CMOS_LED == 18
CMD_GET_ENROLL_COUNT == 32
CMD_CHECK_ENROLLED == 33
CMD_ENROLL_START == 34
CMD_ENROLL1 == 35
CMD_ENROLL2 == 36
CMD_ENROLL3 == 37
CMD_IS_PRESS_FINGER == 38
CMD_DELETE_ID == 64
CMD_DELETE_ALL == 65
CMD_VERIFY == 80
CMD_IDENTIFY == 81
CMD_CAPTURE_FINGER == 96

ACK == 48
NACK == 49

NACK_NOT_RECVD == 1
NACK_INVALID_ENROLLMENT_STAGE == 2
NACK_IS_ALREADY_USED == 4101
NACK_COMM_ERR == 4102
NACK_BAD_FINGER == 4108
NACK_ENROLL_FAILED == 4109
NACK_FINGER_IS_NOT_PRESSED == 4114

\* enum ENROLL_STATE
START == "START"
CAPTURE == "CAPTURE"
ENROLL == "ENROLL"
COMPLETE == "COMPLETE"
REMOVE_FINGER == "REMOVE_FINGER"

(***************************************************************************)
(* Bounds of the model                                                     *)
(***************************************************************************)
\* the longest byte array handed to computeCheckSum
MaxArrayLen == 300
\* the longest recorded trace of visited workflow states
MaxVisited == 12
\* the longest recorded list of acknowledged enrollment commands
MaxAcks == 5
\* the counter of commands sent by one public call saturates here
MaxSent == 3

(***************************************************************************)
(* Wire codec                                                              *)
(***************************************************************************)
B(buff, k) == buff[k + 1]

Word(n) == n % 65536

\* a slip: chkSum += arr[i] without the 16-bit width of chkSum
chkSumAddNoWrap(chkSum, b) == chkSum + b

\* chkSum += arr[i], chkSum being a word
chkSumAdd(chkSum, b) == Word(chkSum + b)

\* for (i = from; i < to; ++i) chkSum += arr[i];  the value of chkSum after
\* the loop.  The range is walked in two halves, the second starting from
\* the sum the first has reached, which keeps the evaluation shallow.
RECURSIVE chkSumLoop(_, _, _, _)
chkSumLoop(arr, from, to, chkSum) ==
    IF to <= from THEN chkSum
    ELSE IF to = from + 1 THEN chkSumAdd(chkSum, B(arr, from))
    ELSE CHOOSE s \in
             { chkSumLoop(arr, (from + to) \div 2, to, c) :
                 c \in {chkSumLoop(arr, from, (from + to) \div 2, chkSum)} } : TRUE

\* word chkSum = 0; for (i = 0; i < size; ++i) chkSum += arr[i];
computeCheckSum(arr, size) == chkSumLoop(arr, 0, size, 0)

\* A dword is kept as the pair <<high word, low word>> of its 16-bit
\* halves.  Dword(n) is the dword of the number n.
Dword(n) == <<(n \div 65536) % 65536, n % 65536>>

\* a slip: the two bytes stay where they are
flipEndiannessWordKeep(flipThis) == Word(flipThis)

\* word flipEndianness(word):
\* ((flipThis & 0x00FF) << 8) | ((flipThis & 0xFF00) >> 8)
flipEndiannessWord(flipThis) ==
    Word((Word(flipThis) % 256) * 256 + ((Word(flipThis) \div 256) % 256))

\* dword flipEndianness(dword):
\* ((flipThis & 0x000000FF) << 24) | ((flipThis & 0xFF000000) >> 24) |
\* ((flipThis & 0x0000FF00) << 8) | ((flipThis & 0x00FF0000) >> 8)
\* the first and third terms make the high word of the result, the second
\* and fourth its low word
flipEndiannessDword(flipThis) ==
    LET hi == flipThis[1]
        lo == flipThis[2]
    IN  <<(lo % 256) * 256 + ((lo \div 256) % 256),
          ((hi \div 256) % 256) + (hi % 256) * 256>>

\* void split(word, byte*): the most significant byte at index 0
splitWord(splitThis) ==
    <<(Word(splitThis) \div 256) % 256, Word(splitThis) % 256>>

\* void split(dword, byte*): the most significant byte at index 0
splitDword(splitThis) ==
    LET hi == splitThis[1]
        lo == splitThis[2]
    IN  <<(hi \div 256) % 256, hi % 256, (lo \div 256) % 256, lo % 256>>

\* a slip: the argument is written as it is, most significant byte first
sendUnflipped(cmd, param, isBigEndian) ==
    LET body == <<CMD_START_CODE_1, CMD_START_CODE_2, DEVICE_ID_LSB, DEVICE_ID_MSB>>
                \o splitDword(param) \o splitWord(cmd)
    IN  body \o splitWord(flipEndiannessWord(computeCheckSum(body, 10)))

\* send(cmd, param, isBigEndian): the twelve bytes handed to COMMS.write
send(cmd, param, isBigEndian) ==
    LET p == IF isBigEndian THEN flipEndiannessDword(param) ELSE param
        c == IF isBigEndian THEN flipEndiannessWord(cmd) ELSE Word(cmd)
        body == <<CMD_START_CODE_1, CMD_START_CODE_2, DEVICE_ID_LSB, DEVICE_ID_MSB>>
                \o splitDword(p) \o splitWord(c)
    IN  body \o splitWord(flipEndiannessWord(computeCheckSum(body, 10)))

\* a slip: the parameter is read most significant byte first
ParamOfBigEndian(buff) ==
    B(buff, 4) * 16777216 + B(buff, 5) * 65536 + B(buff, 6) * 256 + B(buff, 7)

\* (buff[7] << 24) | (buff[6] << 16) | (buff[5] << 8) | buff[4]
ParamOf(buff) ==
    B(buff, 7) * 16777216 + B(buff, 6) * 65536 + B(buff, 5) * 256 + B(buff, 4)

\* givenChkSum = (buff[11] << 8) | buff[10]
GivenChkSum(buff) == B(buff, 11) * 256 + B(buff, 10)

(***************************************************************************)
(* Transport session: recvResponsePkt                                      *)
(***************************************************************************)
\* The scan loop of recvResponsePkt over the bytes s available in COMMS:
\* bytes are consumed one by one; a 0x55 makes the loop consume one more
\* byte (COMMS.read() gives -1 on an empty buffer) and compare it with 0xAA;
\* after the marker up to 10 bytes are read while bytes are available.
RECURSIVE ScanResponse(_)
ScanResponse(s) ==
    IF s = <<>> THEN [done |-> FALSE, buff |-> <<>>, rest |-> <<>>]
    ELSE IF Head(s) # 85 THEN ScanResponse(Tail(s))
    ELSE LET s1 == Tail(s)
             second == IF s1 = <<>> THEN -1 ELSE Head(s1)
             s2 == IF s1 = <<>> THEN <<>> ELSE Tail(s1)
         IN  IF second # 170 THEN ScanResponse(s2)
             ELSE IF Len(s2) >= 10
                  THEN [done |-> TRUE,
                        buff |-> <<85, 170>> \o SubSeq(s2, 1, 10),
                        rest |-> SubSeq(s2, 11, Len(s2))]
                  ELSE [done |-> FALSE, buff |-> <<>>, rest |-> <<>>]

\* Is a complete packet whose checksum matches a NACK?  (buff[8] == 0x31)
IsNack(buff) == B(buff, 8) = 49

\* a slip: only the low byte of the checksum is compared
recvResponsePktLowByte(s) ==
    LET sc == ScanResponse(s)
    IN  IF ~sc.done
        THEN [done |-> FALSE, status |-> FALSE, param |-> NACK_NOT_RECVD,
              rest |-> sc.rest, pkt |-> <<>>]
        ELSE IF computeCheckSum(sc.buff, 10) % 256 # B(sc.buff, 10)
        THEN [done |-> TRUE, status |-> FALSE, param |-> NACK_COMM_ERR,
              rest |-> sc.rest, pkt |-> sc.buff]
        ELSE IF IsNack(sc.buff)
        THEN [done |-> TRUE, status |-> FALSE, param |-> ParamOf(sc.buff),
              rest |-> sc.rest, pkt |-> sc.buff]
        ELSE [done |-> TRUE, status |-> TRUE, param |-> ParamOf(sc.buff),
              rest |-> sc.rest, pkt |-> sc.buff]

\* One call of recvResponsePkt() on the available bytes s: what it returns
\* (done), the values it stores in mRespStatus and mRespParam, the bytes it
\* leaves in COMMS and the packet it assembled (<<>> if none).
recvResponsePkt(s) ==
    LET sc == ScanResponse(s)
    IN  IF ~sc.done
        THEN [done |-> FALSE, status |-> FALSE, param |-> NACK_NOT_RECVD,
              rest |-> sc.rest, pkt |-> <<>>]
        ELSE IF computeCheckSum(sc.buff, 10) # GivenChkSum(sc.buff)
        THEN [done |-> TRUE, status |-> FALSE, param |-> NACK_COMM_ERR,
              rest |-> sc.rest, pkt |-> sc.buff]
        ELSE IF IsNack(sc.buff)
        THEN [done |-> TRUE, status |-> FALSE, param |-> ParamOf(sc.buff),
              rest |-> sc.rest, pkt |-> sc.buff]
        ELSE [done |-> TRUE, status |-> TRUE, param |-> ParamOf(sc.buff),
              rest |-> sc.rest, pkt |-> sc.buff]

(***************************************************************************)
(* Transport session: recvDataPkt                                          *)
(***************************************************************************)
\* The scan loop of recvDataPkt for a packet of total bytes.
RECURSIVE ScanData(_, _)
ScanData(s, total) ==
    IF s = <<>> THEN [done |-> FALSE, buff |-> <<>>, rest |-> <<>>]
    ELSE IF Head(s) # 90 THEN ScanData(Tail(s), total)
    ELSE LET s1 == Tail(s)
             second == IF s1 = <<>> THEN -1 ELSE Head(s1)
             s2 == IF s1 = <<>> THEN <<>> ELSE Tail(s1)
         IN  IF second # 165 THEN ScanData(s2, total)
             ELSE IF Len(s2) >= total - 2
                  THEN [done |-> TRUE,
                        buff |-> <<90, 165>> \o SubSeq(s2, 1, total - 2),
                        rest |-> SubSeq(s2, total - 1, Len(s2))]
                  ELSE [done |-> FALSE, buff |-> <<>>, rest |-> <<>>]

\* One call of recvDataPkt(size) on the available bytes s.
recvDataPkt(s, size) ==
    LET totalPktSize == size + DATA_PKT_ADD
        sc == ScanData(s, totalPktSize)
        given == B(sc.buff, totalPktSize - 1) * 256 + B(sc.buff, totalPktSize - 2)
    IN  IF sc.done /\ computeCheckSum(sc.buff, totalPktSize - 2) # given
        THEN [done |-> FALSE, rest |-> sc.rest, data |-> sc.buff]
        ELSE [done |-> sc.done, rest |-> sc.rest, data |-> sc.buff]

(***************************************************************************)
(* The device's side of one exchange.  A delivery d says which bytes reach *)
(* COMMS and when: d.bytes arrive before poll number d.slot (1..TIMEOUT)   *)
(* of the command's receive loop, or after the loop (slot TIMEOUT + 1);    *)
(* d.more arrive one slot later.  Bytes that arrive after the command has  *)
(* returned wait in COMMS for the next command.                            *)
(***************************************************************************)
MoreSlot(d) == IF d.slot = TIMEOUT + 1 THEN TIMEOUT + 1 ELSE d.slot + 1

\* the bytes that arrive in slot k
Arriving(d, k) ==
    (IF d.slot = k THEN d.bytes ELSE <<>>)
    \o (IF MoreSlot(d) = k THEN d.more ELSE <<>>)

\* the bytes that arrive in slot k or later
Later(d, k) ==
    (IF d.slot >= k THEN d.bytes ELSE <<>>)
    \o (IF MoreSlot(d) >= k THEN d.more ELSE <<>>)

\* the bytes that arrive before the last poll of the receive loop
Heard(d) ==
    (IF d.slot <= TIMEOUT THEN d.bytes ELSE <<>>)
    \o (IF MoreSlot(d) <= TIMEOUT THEN d.more ELSE <<>>)

(***************************************************************************)
(* for (int i = 0; i < TIMEOUT && !recvResponsePkt(); ++i) delay(WAITTIME);*)
(* st, pa: mRespStatus and mRespParam so far; avail: the bytes in COMMS.   *)
(* attempts counts the calls of recvResponsePkt, delays those of delay.    *)
(* r, the outcome of the one recvResponsePkt call of an iteration, is      *)
(* bound as the element of a singleton so that it is computed once.        *)
(***************************************************************************)
\* a slip: the loop is left one iteration late
RECURSIVE PollLoopLate(_, _, _, _, _, _)
PollLoopLate(i, st, pa, pk, avail, d) ==
    IF i > TIMEOUT
    THEN [status |-> st, param |-> pa, pkt |-> pk, rx |-> avail,
          later |-> Later(d, i + 1), attempts |-> i, delays |-> i]
    ELSE CHOOSE e \in
           { IF r.done
             THEN [status |-> r.status, param |-> r.param, pkt |-> r.pkt,
                   rx |-> r.rest, later |-> Later(d, i + 2),
                   attempts |-> i + 1, delays |-> i]
             ELSE PollLoopLate(i + 1, r.status, r.param, r.pkt, r.rest, d)
             : r \in {recvResponsePkt(avail \o Arriving(d, i + 1))} } : TRUE

RECURSIVE PollLoop(_, _, _, _, _, _)
PollLoop(i, st, pa, pk, avail, d) ==
    IF i >= TIMEOUT
    THEN [status |-> st, param |-> pa, pkt |-> pk, rx |-> avail,
          later |-> Later(d, i + 1), attempts |-> i, delays |-> i]
    ELSE CHOOSE e \in
           { IF r.done
             THEN [status |-> r.status, param |-> r.param, pkt |-> r.pkt,
                   rx |-> r.rest, later |-> Later(d, i + 2),
                   attempts |-> i + 1, delays |-> i]
             ELSE PollLoop(i + 1, r.status, r.param, r.pkt, r.rest, d)
             : r \in {recvResponsePkt(avail \o Arriving(d, i + 1))} } : TRUE

(***************************************************************************)
(* Command layer.  m is the driver object with its stream:                 *)
(* [status, param, stage, rx].  Each function yields the object after the  *)
(* call together with what the call returned (ret), the command codes it   *)
(* sent, the attempts, delays and assembled packet of its exchange, the    *)
(* bytes the device delivered during the receive loop (heard) and the data *)
(* packet recvDataPkt assembled (data, <<>> if none).                      *)
(***************************************************************************)
\* send(cmd, ...) followed by the receive loop; returns mRespStatus
Transact(m, call, cmd, d) ==
    CHOOSE out \in
      { [call |-> call, ret |-> e.status, status |-> e.status,
         param |-> e.param, stage |-> m.stage, rx |-> e.rx \o e.later,
         sent |-> <<cmd>>, attempts |-> e.attempts, delays |-> e.delays,
         pkt |-> e.pkt, heard |-> Heard(d), data |-> <<>>]
        : e \in {PollLoop(0, m.status, m.param, <<>>, m.rx, d)} } : TRUE

close(m, d) == Transact(m, "close", CMD_CLOSE, d)
powerCMOS(m, on, d) == Transact(m, "powerCMOS", CMD_CMOS_LED, d)
changeBaudrate(m, d) == Transact(m, "changeBaudrate", CMD_CHANGE_BAUDRATE, d)
getEnrollCount(m, d) == Transact(m, "getEnrollCount", CMD_GET_ENROLL_COUNT, d)
isIDEnrolled(m, id, d) == Transact(m, "isIDEnrolled", CMD_CHECK_ENROLLED, d)
captureFingerprint(m, highQual, d) ==
    Transact(m, "captureFingerprint", CMD_CAPTURE_FINGER, d)
deleteID(m, id, d) == Transact(m, "deleteID", CMD_DELETE_ID, d)
deleteAll(m, d) == Transact(m, "deleteAll", CMD_DELETE_ALL, d)
verify(m, id, d) == Transact(m, "verify", CMD_VERIFY, d)
identify(m, d) == Transact(m, "identify", CMD_IDENTIFY, d)

\* a slip: the stage is reset whether or not the command was acknowledged
startEnrollmentReset(m, id, d) ==
    LET r == Transact(m, "startEnrollment", CMD_ENROLL_START, d)
    IN  [r EXCEPT !.stage = 0]

\* if (mRespStatus) mEnrollmentStage = 0;
startEnrollment(m, id, d) ==
    LET r == Transact(m, "startEnrollment", CMD_ENROLL_START, d)
    IN  [r EXCEPT !.stage = IF r.status THEN 0 ELSE @]

\* the command createEnrollmentTemplate sends for a stage (0 if none)
EnrollCmd(stage) ==
    CASE stage = 0 -> CMD_ENROLL1
      [] stage = 1 -> CMD_ENROLL2
      [] stage = 2 -> CMD_ENROLL3
      [] OTHER -> 0

\* a slip: the stage is incremented whether or not the template succeeded
createEnrollmentTemplateAlways(m, d) ==
    IF EnrollCmd(m.stage) = 0
    THEN [call |-> "createEnrollmentTemplate", ret |-> FALSE,
          status |-> m.status, param |-> m.param, stage |-> m.stage,
          rx |-> m.rx, sent |-> <<>>, attempts |-> 0,
          delays |-> 0, pkt |-> <<>>, heard |-> <<>>, data |-> <<>>]
    ELSE LET r == Transact(m, "createEnrollmentTemplate", EnrollCmd(m.stage), d)
         IN  [r EXCEPT !.stage = (@ + 1) % 256]

\* a slip: the default branch stores the failure it returns
createEnrollmentTemplateStores(m, d) ==
    IF EnrollCmd(m.stage) = 0
    THEN [call |-> "createEnrollmentTemplate", ret |-> FALSE,
          status |-> FALSE, param |-> NACK_INVALID_ENROLLMENT_STAGE,
          stage |-> m.stage, rx |-> m.rx, sent |-> <<>>, attempts |-> 0,
          delays |-> 0, pkt |-> <<>>, heard |-> <<>>, data |-> <<>>]
    ELSE LET r == Transact(m, "createEnrollmentTemplate", EnrollCmd(m.stage), d)
         IN  [r EXCEPT !.stage = IF r.status THEN (@ + 1) % 256 ELSE @]

\* switch (mEnrollmentStage) { ... default: return false; }
\* ... if (mRespStatus) ++mEnrollmentStage;      (a uint8_t)
createEnrollmentTemplate(m, d) ==
    IF EnrollCmd(m.stage) = 0
    THEN [call |-> "createEnrollmentTemplate", ret |-> FALSE,
          status |-> m.status, param |-> m.param, stage |-> m.stage,
          rx |-> m.rx, sent |-> <<>>, attempts |-> 0,
          delays |-> 0, pkt |-> <<>>, heard |-> <<>>, data |-> <<>>]
    ELSE LET r == Transact(m, "createEnrollmentTemplate", EnrollCmd(m.stage), d)
         IN  [r EXCEPT !.stage = IF r.status THEN (@ + 1) % 256 ELSE @]

\* a slip: a code of NACK_FINGER_IS_NOT_PRESSED left by the call before
\* switches the conversion off
isFingerPressedOnce(m, d) ==
    LET r == Transact(m, "isFingerPressed", CMD_IS_PRESS_FINGER, d)
    IN  IF r.status /\ r.param # 0 /\ m.param # NACK_FINGER_IS_NOT_PRESSED
        THEN [r EXCEPT !.param = NACK_FINGER_IS_NOT_PRESSED,
                       !.status = FALSE, !.ret = FALSE]
        ELSE r

\* a slip: the conversion clears the status but keeps the device's parameter
isFingerPressedKeepsParam(m, d) ==
    LET r == Transact(m, "isFingerPressed", CMD_IS_PRESS_FINGER, d)
    IN  IF r.status /\ r.param # 0
        THEN [r EXCEPT !.status = FALSE, !.ret = FALSE]
        ELSE r

\* if (mRespStatus && mRespParam != 0) { mRespParam = NACK_FINGER_IS_NOT_PRESSED;
\*                                       mRespStatus = false; }
isFingerPressed(m, d) ==
    LET r == Transact(m, "isFingerPressed", CMD_IS_PRESS_FINGER, d)
    IN  IF r.status /\ r.param # 0
        THEN [r EXCEPT !.param = NACK_FINGER_IS_NOT_PRESSED,
                       !.status = FALSE, !.ret = FALSE]
        ELSE r

\* a slip: the inspection stops one byte early
SerialNonZeroShort(data) == \E k \in 8..22 : B(data, k) # 0

\* for (i = 8; i < 24 && (mDataPkt[i] == 0x00); ++i); success &= (i != 24);
SerialNonZero(data) == \E k \in 8..23 : B(data, k) # 0

\* open(errChk): the receive loop, then with errChk and an acknowledged
\* response one call of recvDataPkt(24) and the inspection of mDataPkt
open(m, errChk, d) ==
    LET e == PollLoop(0, m.status, m.param, <<>>, m.rx, d)
        dp == recvDataPkt(e.rx, 24)
        success == IF errChk /\ e.status
                   THEN dp.done /\ SerialNonZero(dp.data)
                   ELSE e.status
    IN  [call |-> "open", ret |-> success, status |-> e.status,
         param |-> e.param, stage |-> m.stage,
         rx |-> (IF errChk /\ e.status THEN dp.rest ELSE e.rx) \o e.later,
         sent |-> <<CMD_OPEN>>, attempts |-> e.attempts,
         delays |-> e.delays, pkt |-> e.pkt, heard |-> Heard(d),
         data |-> (IF errChk /\ e.status THEN dp.data ELSE <<>>)]

(***************************************************************************)
(* The environment: what the device may put on the wire.                   *)
(* A response packet is 0x55 0xAA, the device id, the parameter and the    *)
(* status word least significant byte first, and the checksum of these ten *)
(* bytes, least significant byte first.                                    *)
(***************************************************************************)
Checked(body) ==
    LET c == computeCheckSum(body, Len(body))
    IN  body \o <<c % 256, c \div 256>>

DevResp(param, status) ==
    Checked(<<RES_START_CODE_1, RES_START_CODE_2, DEVICE_ID_LSB, DEVICE_ID_MSB,
              param % 256, (param \div 256) % 256, (param \div 65536) % 256,
              param \div 16777216, status, 0>>)

\* a packet damaged on the way: its checksum no longer matches
Damaged(pkt) == [pkt EXCEPT ![5] = (@ + 1) % 256]

\* a status byte that is neither ACK nor NACK
OddStatus == ACK + 2

AckParams == {0, 513}
NackCodes == {NACK_IS_ALREADY_USED, NACK_COMM_ERR, NACK_BAD_FINGER,
              NACK_ENROLL_FAILED, NACK_FINGER_IS_NOT_PRESSED}

DevicePackets ==
    {DevResp(p, ACK) : p \in AckParams}
    \cup {DevResp(c, NACK) : c \in NackCodes}
    \cup {Damaged(DevResp(0, ACK)), DevResp(0, OddStatus)}

\* the response reaches COMMS before the first poll, before the last poll,
\* or only after the command has given up
Silence == [bytes |-> <<>>, slot |-> 1, more |-> <<>>]

At(pkts, slots) ==
    {[bytes |-> p, slot |-> s, more |-> <<>>] : p \in pkts, s \in slots}

\* what the device may do after a command sent by enrollSequence
Deliveries == {Silence} \cup At(DevicePackets, {1, TIMEOUT + 1})

\* a device that answers before the first poll or not at all
PromptPackets ==
    {DevResp(0, ACK), DevResp(513, ACK), DevResp(NACK_IS_ALREADY_USED, NACK),
     DevResp(NACK_BAD_FINGER, NACK), Damaged(DevResp(0, ACK))}

PromptDeliveries == {Silence} \cup At(PromptPackets, {1})

\* what the device may do after a command-layer function called directly
CmdPackets ==
    {DevResp(0, ACK), DevResp(513, ACK), DevResp(NACK_BAD_FINGER, NACK),
     Damaged(DevResp(0, ACK)), DevResp(0, OddStatus)}

\* a packet that arrives in two parts: its first k bytes before poll s, the
\* others before the poll after it
SplitAt(pkt, k, s) ==
    [bytes |-> SubSeq(pkt, 1, k), slot |-> s, more |-> SubSeq(pkt, k + 1, Len(pkt))]

\* half the marker, the marker alone, the marker and part of the body
SplitPoints == {1, 2, 7}

SplitDeliveries == {SplitAt(DevResp(0, ACK), k, 1) : k \in SplitPoints}

\* the responses that may also arrive after the call has given up
LatePackets == {DevResp(513, ACK), DevResp(NACK_BAD_FINGER, NACK)}

CmdDeliveries ==
    {Silence} \cup At(CmdPackets, {1, TIMEOUT})
    \cup At(LatePackets, {TIMEOUT + 1}) \cup SplitDeliveries

\* the data packet that follows the response to open(true): 0x5A 0xA5, the
\* device id, 24 bytes of device information and the checksum
DevData(info) ==
    Checked(<<DATA_START_CODE_1, DATA_START_CODE_2, DEVICE_ID_LSB, DEVICE_ID_MSB>>
            \o info)

ZeroInfo == [k \in 1..24 |-> 0]
GoodInfo == [k \in 1..24 |-> IF k > 8 THEN 7 ELSE 0]

\* the payload that is zero but for the byte at index k of the packet
\* (the payload starts at index 4)
OnlyAt(k) == [j \in 1..24 |-> IF j = k - 3 THEN 7 ELSE 0]

\* the indices just outside and just inside of mDataPkt[8..23]
EdgeIndices == {7, 8, 23, 24}

DataPackets == {DevData(GoodInfo), DevData(ZeroInfo), Damaged(DevData(GoodInfo))}

EdgePackets == {DevData(OnlyAt(k)) : k \in EdgeIndices}

\* open(true): the response, and a data packet right behind it or one slot
\* later
OpenDeliveries ==
    {[bytes |-> DevResp(0, ACK) \o dp, slot |-> s, more |-> <<>>] :
        dp \in DataPackets, s \in {1, TIMEOUT}}
    \cup {[bytes |-> DevResp(0, ACK), slot |-> 1, more |-> dp] :
             dp \in DataPackets}
    \cup {[bytes |-> DevResp(0, ACK) \o dp, slot |-> 1, more |-> <<>>] :
             dp \in EdgePackets}

IDs == {0, 19}

(***************************************************************************)
(* State                                                                   *)
(***************************************************************************)
VARIABLES
    mRespStatus,        \* bool mRespStatus
    mRespParam,         \* dword mRespParam
    mEnrollmentStage,   \* uint8_t mEnrollmentStage
    rx,                 \* the bytes waiting in COMMS
    pc,                 \* "idle", or the position inside enrollSequence
    state,              \* enrollSequence: ENROLL_STATE state
    done,               \* enrollSequence: bool done
    success,            \* enrollSequence: bool success
    i,                  \* enrollSequence: the counter of the REMOVE_FINGER loop
    \* what an observer of the calls sees
    lastCall,           \* the public function called last
    lastRet,            \* what it returned (once pc = "idle")
    lastSent,           \* the code of the command sent last by it, 0 if none
    attempts,           \* recvResponsePkt calls of the last command-layer call
    delays,             \* delay(WAITTIME) calls of the last command-layer call
    rxPkt,              \* the packet its receive loop assembled, <<>> if none
    arrived,            \* the bytes the device delivered during that loop
    dataPkt,            \* the data packet recvDataPkt assembled, <<>> if none
    input,              \* the arguments of the last call, where observed
    output,             \* the value of the last private helper call
    prev,               \* the outcome of the call before the last one, where
                        \* the sketch repeats a call
    sentCnt,            \* commands sent by the last public call (saturating)
    stage0,             \* mEnrollmentStage when the last public call began
    visited,            \* enrollSequence: the states entered, while happy
    happy,              \* enrollSequence: every exchange so far went well
    enrollAcks,         \* enrollSequence: acknowledged enrollment commands
    usingStream,        \* enrollSequence: bool usingStream
    prompts,            \* the messages out() was given during the last step
    twin,               \* the same call made without an output function
    pollErr,            \* a finger poll of this call failed with another
                        \* code than NACK_FINGER_IS_NOT_PRESSED
    captured,           \* a capture was acknowledged since the last template
                        \* command (or since the call began)
    ledAcked,           \* every CMOS LED command of this call was acknowledged
    ledLast             \* the CMOS LED command acknowledged last: "on", "off"

fields == <<mRespStatus, mRespParam, mEnrollmentStage, rx>>
locals == <<pc, state, done, success, i>>
observed == <<lastCall, lastRet, lastSent, attempts, delays, rxPkt, sentCnt,
              stage0, visited, happy, enrollAcks>>
exchange == <<arrived, dataPkt>>
helper == <<input, output, prev>>
sink == <<usingStream, prompts, twin>>
history == <<pollErr, captured, ledAcked, ledLast>>
workflow == <<sink, history>>
vars == <<fields, locals, observed, exchange, helper, workflow>>

Self == [status |-> mRespStatus, param |-> mRespParam,
         stage |-> mEnrollmentStage, rx |-> rx]

Min(a, b) == IF a < b THEN a ELSE b

\* bool success = true; bool done = false; ENROLL_STATE state = START;
EntryLocals == [state |-> START, done |-> FALSE, success |-> TRUE]

\* no call has been made yet
NoCall ==
    [call |-> "constructor", input |-> <<>>, heard |-> <<>>, ret |-> FALSE,
     status |-> FALSE, param |-> 0, stage |-> 0]

\* a run of enrollSequence that is about to begin on the object m
AtEntry(m) ==
    [m |-> m, w |-> EntryLocals, pc |-> "idle", i |-> 0, sent |-> 0,
     ret |-> FALSE]

\* The fields are not set by the constructor: any value may be there.
InitStages == {0, 2, 3, 200}
InitParams == {0, NACK_COMM_ERR}

\* the object after construction, with the bytes stream waiting in COMMS
Constructed(stream) ==
    /\ mRespStatus \in BOOLEAN
    /\ mRespParam \in InitParams
    /\ mEnrollmentStage \in InitStages
    /\ rx = stream
    /\ pc = "idle"
    /\ state = START
    /\ done = FALSE
    /\ success = TRUE
    /\ i = 0
    /\ lastCall = "constructor"
    /\ lastRet = FALSE
    /\ lastSent = 0
    /\ attempts = 0
    /\ delays = 0
    /\ rxPkt = <<>>
    /\ sentCnt = 0
    /\ stage0 = mEnrollmentStage
    /\ visited = <<>>
    /\ happy = TRUE
    /\ enrollAcks = <<>>
    /\ arrived = <<>>
    /\ dataPkt = <<>>
    /\ input = <<>>
    /\ output = <<>>
    /\ prev = NoCall
    /\ usingStream = FALSE
    /\ prompts = <<>>
    /\ twin = AtEntry(Self)
    /\ pollErr = FALSE
    /\ captured = FALSE
    /\ ledAcked = TRUE
    /\ ledLast = "none"

Init == Constructed(<<>>)

\* the object and the exchange observers after a command-layer call r
Store(r) ==
    /\ mRespStatus' = r.status
    /\ mRespParam' = r.param
    /\ mEnrollmentStage' = r.stage
    /\ rx' = r.rx
    /\ lastSent' = (IF r.sent = <<>> THEN 0 ELSE r.sent[1])
    /\ attempts' = r.attempts
    /\ delays' = r.delays
    /\ rxPkt' = r.pkt
    /\ arrived' = r.heard
    /\ dataPkt' = r.data

(***************************************************************************)
(* The command-layer functions called by the sketch                        *)
(***************************************************************************)
\* the call with the arguments args has made the exchange r and returns;
\* wire is the command packet it wrote when the observer keeps it
Returning(r, args, wire) ==
    /\ pc = "idle"
    /\ Store(r)
    /\ input' = args
    /\ output' = wire
    /\ lastCall' = r.call
    /\ lastRet' = r.ret
    /\ sentCnt' = Len(r.sent)
    /\ stage0' = mEnrollmentStage
    /\ pc' = "idle"
    /\ state' = START
    /\ done' = FALSE
    /\ success' = TRUE
    /\ i' = 0
    /\ visited' = <<>>
    /\ happy' = TRUE
    /\ enrollAcks' = <<>>
    /\ twin' = AtEntry(Self)'
    /\ UNCHANGED <<usingStream, prompts, history>>

CallSending(r, args, wire) == Returning(r, args, wire) /\ UNCHANGED prev

Call(r, args) == CallSending(r, args, <<>>)

\* send(CMD_OPEN, errChk): the bool becomes the parameter 1 or 0
Open ==
    \E errChk \in BOOLEAN :
        \E d \in CmdDeliveries \cup (IF errChk THEN OpenDeliveries ELSE {}) :
            CallSending(open(Self, errChk, d), <<errChk>>,
                        send(CMD_OPEN, Dword(IF errChk THEN 1 ELSE 0), TRUE))

SimpleCommand ==
    \E d \in CmdDeliveries :
        \E r \in {close(Self, d), changeBaudrate(Self, d), getEnrollCount(Self, d),
                  deleteAll(Self, d), identify(Self, d)}
                 \cup {powerCMOS(Self, on, d) : on \in BOOLEAN}
                 \cup {captureFingerprint(Self, highQual, d) : highQual \in BOOLEAN}
                 \cup {isIDEnrolled(Self, id, d) : id \in IDs}
                 \cup {deleteID(Self, id, d) : id \in IDs}
                 \cup {verify(Self, id, d) : id \in IDs} :
            Call(r, <<>>)

StartEnrollment ==
    \E d \in CmdDeliveries, id \in IDs : Call(startEnrollment(Self, id, d), <<>>)

CreateEnrollmentTemplate ==
    \E d \in CmdDeliveries : Call(createEnrollmentTemplate(Self, d), <<>>)

IsFingerPressed == \E d \in CmdDeliveries : Call(isFingerPressed(Self, d), <<>>)

(***************************************************************************)
(* enrollSequence: the switch of the state machine.  w holds the locals    *)
(* [state, done, success]; r is the command-layer call just made.          *)
(***************************************************************************)
\* a slip: the result of startEnrollment is ignored
AfterStartIgnored(w, r) == [w EXCEPT !.state = REMOVE_FINGER]

\* case START
AfterStart(w, r) ==
    IF r.ret THEN [w EXCEPT !.state = REMOVE_FINGER]
    ELSE [w EXCEPT !.success = FALSE, !.done = TRUE]

\* a slip: the result of powerCMOS is not looked at
AfterCMOSUnchecked(w, r) == w

\* if (!powerCMOS(..)) { success = false; done = true; }
AfterCMOS(w, r) ==
    IF ~r.ret THEN [w EXCEPT !.success = FALSE, !.done = TRUE] ELSE w

\* a slip: every capture failure is retried
AfterCaptureRetryAll(w, r) ==
    IF r.ret THEN [w EXCEPT !.state = ENROLL] ELSE w

\* a slip: every capture failure ends the workflow
AfterCaptureFatal(w, r) ==
    IF r.ret THEN [w EXCEPT !.state = ENROLL]
    ELSE [w EXCEPT !.success = FALSE, !.done = TRUE]

\* case CAPTURE, after captureFingerprint(true)
AfterCapture(w, r) ==
    IF r.ret THEN [w EXCEPT !.state = ENROLL]
    ELSE IF r.param = NACK_COMM_ERR
         THEN [w EXCEPT !.success = FALSE, !.done = TRUE]
         ELSE w

\* a slip: the enrollment is taken to be complete after two templates
AfterTemplateEarly(w, r) ==
    IF r.ret
    THEN IF r.stage = 2 THEN [w EXCEPT !.state = COMPLETE]
         ELSE [w EXCEPT !.state = REMOVE_FINGER]
    ELSE IF r.param = NACK_ENROLL_FAILED \/ r.param = NACK_BAD_FINGER
         THEN [w EXCEPT !.state = CAPTURE]
         ELSE [w EXCEPT !.success = FALSE, !.done = TRUE]

\* a slip: a bad image sends the workflow back to REMOVE_FINGER
AfterTemplateRemove(w, r) ==
    IF r.ret
    THEN IF r.stage = 3 THEN [w EXCEPT !.state = COMPLETE]
         ELSE [w EXCEPT !.state = REMOVE_FINGER]
    ELSE IF r.param = NACK_ENROLL_FAILED \/ r.param = NACK_BAD_FINGER
         THEN [w EXCEPT !.state = REMOVE_FINGER]
         ELSE [w EXCEPT !.success = FALSE, !.done = TRUE]

\* a slip: a bad image is enrolled again without a new capture
AfterTemplateAgain(w, r) ==
    IF r.ret
    THEN IF r.stage = 3 THEN [w EXCEPT !.state = COMPLETE]
         ELSE [w EXCEPT !.state = REMOVE_FINGER]
    ELSE IF r.param = NACK_ENROLL_FAILED \/ r.param = NACK_BAD_FINGER
         THEN [w EXCEPT !.state = ENROLL]
         ELSE [w EXCEPT !.success = FALSE, !.done = TRUE]

\* case ENROLL, after createEnrollmentTemplate()
AfterTemplate(w, r) ==
    IF r.ret
    THEN IF r.stage = 3 THEN [w EXCEPT !.state = COMPLETE]
         ELSE [w EXCEPT !.state = REMOVE_FINGER]
    ELSE IF r.param = NACK_ENROLL_FAILED \/ r.param = NACK_BAD_FINGER
         THEN [w EXCEPT !.state = CAPTURE]
         ELSE [w EXCEPT !.success = FALSE, !.done = TRUE]

\* a slip: an error of the fifth poll does not end the workflow
AfterRemoveFingerStay(w, n, r) ==
    IF n = 5 /\ r.param = NACK_FINGER_IS_NOT_PRESSED
    THEN [w EXCEPT !.state = CAPTURE]
    ELSE w

\* case REMOVE_FINGER, after the loop has ended with counter n:
\* if (i == 5) { if (mRespParam == NACK_FINGER_IS_NOT_PRESSED) ... else ... }
AfterRemoveFinger(w, n, r) ==
    IF n = 5
    THEN IF r.param = NACK_FINGER_IS_NOT_PRESSED
         THEN [w EXCEPT !.state = CAPTURE]
         ELSE [w EXCEPT !.success = FALSE, !.done = TRUE]
    ELSE w

\* a slip: the loop ends after three polls
PollAgainThree(n, r) == ~r.ret /\ n + 1 < 3

\* for (i = 0; i < 5 && !isFingerPressed(); ++i);  does the loop go on
\* after a poll r made with counter n?
PollAgain(n, r) == ~r.ret /\ n + 1 < 5

Locals == [state |-> state, done |-> done, success |-> success]

\* did the exchange go the way of the happy path?
Happy(r) ==
    IF r.call = "isFingerPressed"
    THEN ~r.ret /\ r.param = NACK_FINGER_IS_NOT_PRESSED
    ELSE r.ret

EnrollmentCmds == {CMD_ENROLL_START, CMD_ENROLL1, CMD_ENROLL2, CMD_ENROLL3}

\* the observers after the call r; entered is the state whose case the
\* step enters, "" when the step continues a case
Observe(r, entered) ==
    /\ lastCall' = "enrollSequence"
    /\ UNCHANGED helper
    /\ sentCnt' = Min((IF pc = "idle" THEN 0 ELSE sentCnt) + Len(r.sent), MaxSent)
    /\ stage0' = (IF pc = "idle" THEN mEnrollmentStage ELSE stage0)
    /\ happy' = ((pc = "idle" \/ happy) /\ Happy(r))
    /\ visited' =
          LET v == IF pc = "idle" THEN <<>> ELSE visited
          IN  IF ~happy' THEN <<>>
              ELSE IF entered # "" /\ Len(v) < MaxVisited
                   THEN Append(v, entered) ELSE v
    /\ enrollAcks' =
          LET a == IF pc = "idle" THEN <<>> ELSE enrollAcks
          IN  IF r.status /\ r.sent # <<>> /\ r.sent[1] \in EnrollmentCmds
                 /\ Len(a) < MaxAcks
              THEN Append(a, r.sent[1]) ELSE a

\* the locals after a step; mid is the position inside the case that comes
\* next, "" when the case is over and while (!done) is tested
Proceed(w, n, mid) ==
    /\ state' = w.state
    /\ done' = w.done
    /\ success' = w.success
    /\ pc' = (IF mid # "" THEN mid ELSE IF w.done THEN "idle" ELSE w.state)
    /\ i' = (IF pc' = "idle" THEN 0 ELSE n)
    /\ lastRet' = (IF pc' = "idle" THEN w.success ELSE FALSE)

\* the position after a step that leaves the locals w
NextPc(w, mid) == IF mid # "" THEN mid ELSE IF w.done THEN "idle" ELSE w.state

(***************************************************************************)
(* One step of enrollSequence as a function of the run t = [m, w, pc, i]   *)
(* (the object, the locals, the position, the poll counter), of            *)
(* usingStream and of what the device delivers.                            *)
(***************************************************************************)
\* a slip: the output function reaches the object and resets the stage
outResets(m, str) == [m EXCEPT !.stage = 0]

\* out(str): the function gets the message and nothing of the object
out(m, str) == m

\* if (usingStream) { out(str); }
Say(m, us, str) == IF us THEN out(m, str) ELSE m

\* the messages given to out before the command of the step at t
Before(t) ==
    CASE t.pc = "idle" -> <<"Beginning enroll">>
      [] t.pc = REMOVE_FINGER /\ t.i = 0 -> <<"Remove finger">>
      [] t.pc = CAPTURE -> <<"Place finger">>
      [] OTHER -> <<>>

RECURSIVE SayAll(_, _, _)
SayAll(m, us, msgs) ==
    IF msgs = <<>> THEN m ELSE SayAll(Say(m, us, Head(msgs)), us, Tail(msgs))

\* the command-layer call of the step at t
StepCall(t, us, id, d) ==
    LET m == SayAll(t.m, us, Before(t))
    IN  CASE t.pc = "idle" -> startEnrollment(m, id, d)
          [] t.pc = REMOVE_FINGER -> isFingerPressed(m, d)
          [] t.pc = CAPTURE -> powerCMOS(m, TRUE, d)
          [] t.pc = "CAPTURE_2" -> captureFingerprint(m, TRUE, d)
          [] t.pc = ENROLL -> powerCMOS(m, FALSE, d)
          [] t.pc = "ENROLL_2" -> createEnrollmentTemplate(m, d)

\* the locals, the counter and the next position inside the case after the
\* call r of the step at t
StepLocals(t, r) ==
    CASE t.pc = "idle" ->
            [w |-> AfterStart(EntryLocals, r), n |-> 0, mid |-> "",
             entered |-> START]
      [] t.pc = REMOVE_FINGER ->
            LET n == IF r.ret THEN t.i ELSE t.i + 1
                entered == IF t.i = 0 THEN REMOVE_FINGER ELSE ""
            IN  IF PollAgain(t.i, r)
                THEN [w |-> t.w, n |-> n, mid |-> REMOVE_FINGER,
                      entered |-> entered]
                ELSE [w |-> AfterRemoveFinger(t.w, n, r), n |-> 0, mid |-> "",
                      entered |-> entered]
      [] t.pc = CAPTURE ->
            [w |-> AfterCMOS(t.w, r), n |-> 0, mid |-> "CAPTURE_2",
             entered |-> CAPTURE]
      [] t.pc = "CAPTURE_2" ->
            [w |-> AfterCapture(t.w, r), n |-> 0, mid |-> "", entered |-> ""]
      [] t.pc = ENROLL ->
            [w |-> AfterCMOS(t.w, r), n |-> 0, mid |-> "ENROLL_2",
             entered |-> ENROLL]
      [] t.pc = "ENROLL_2" ->
            [w |-> AfterTemplate(t.w, r), n |-> 0, mid |-> "", entered |-> ""]

\* the message given to out when the function returns with the locals w
AtReturn(w, mid) ==
    IF NextPc(w, mid) # "idle" THEN <<>>
    ELSE IF w.success THEN <<"Success!">> ELSE <<"Failed to enroll">>

\* the step at t: the call r with the object as the function leaves it, the
\* locals, and the messages given to out
enrollStep(t, us, id, d) ==
    CHOOSE s \in
      { LET l == StepLocals(t, r)
        IN  [r |-> SayAll(r, us, AtReturn(l.w, l.mid)), w |-> l.w, n |-> l.n,
             mid |-> l.mid, entered |-> l.entered,
             msgs |-> IF us THEN Before(t) \o AtReturn(l.w, l.mid) ELSE <<>>]
        : r \in {StepCall(t, us, id, d)} } : TRUE

\* case COMPLETE: done = true; the function returns
completeStep(t, us) ==
    LET w == [t.w EXCEPT !.done = TRUE]
    IN  [m |-> SayAll(t.m, us, AtReturn(w, "")), w |-> w,
         msgs |-> IF us THEN AtReturn(w, "") ELSE <<>>]

\* the run t after the step s
After(s) ==
    LET p == NextPc(s.w, s.mid)
    IN  [m |-> [status |-> s.r.status, param |-> s.r.param,
                stage |-> s.r.stage, rx |-> s.r.rx],
         w |-> s.w, pc |-> p, i |-> (IF p = "idle" THEN 0 ELSE s.n),
         sent |-> (IF s.r.sent = <<>> THEN 0 ELSE s.r.sent[1]),
         ret |-> (IF p = "idle" THEN s.w.success ELSE FALSE)]

\* this run of enrollSequence
Me == [m |-> Self, w |-> (IF pc = "idle" THEN EntryLocals ELSE Locals),
       pc |-> pc, i |-> i, sent |-> lastSent, ret |-> lastRet]

\* the observers of the workflow after the call r of this step
Track(r) ==
    /\ pollErr' =
          \/ (pc # "idle" /\ pollErr)
          \/ (r.call = "isFingerPressed" /\ ~r.ret
                /\ r.param # NACK_FINGER_IS_NOT_PRESSED)
    /\ captured' =
          IF r.call = "captureFingerprint" THEN r.status
          ELSE IF r.call = "createEnrollmentTemplate" /\ r.sent # <<>> THEN FALSE
          ELSE pc # "idle" /\ captured
    /\ ledAcked' = ((pc = "idle" \/ ledAcked) /\ (r.call = "powerCMOS" => r.ret))
    /\ ledLast' =
          IF r.call = "powerCMOS" /\ r.ret
          THEN (IF pc = CAPTURE THEN "on" ELSE "off")
          ELSE IF pc = "idle" THEN "none" ELSE ledLast

\* this run makes the step s; t is the twin after its own step: the same
\* call made without an output function on the same object and given the
\* same bytes
Step(s, t) ==
    /\ Store(s.r)
    /\ Observe(s.r, s.entered)
    /\ Proceed(s.w, s.n, s.mid)
    /\ Track(s.r)
    /\ prompts' = s.msgs
    /\ twin' = t

\* enrollSequence(id, out) is called, with an output function if us: the
\* locals are set, and case START runs.  Without an output function the
\* twin is this run.
Enter(D, us) ==
    /\ pc = "idle"
    /\ \E id \in IDs, d \in D :
        \E s \in {enrollStep(Me, us, id, d)} :
          \E t \in {IF us THEN After(enrollStep(AtEntry(Self), FALSE, id, d))
                     ELSE After(s)} :
            /\ usingStream' = us
            /\ Step(s, t)

\* enrollSequence(id)
EnrollSTART(D) == Enter(D, FALSE)

\* enrollSequence(id, out)
EnrollSTART_out(D) == Enter(D, TRUE)

\* a step inside the loop, at the position at; a twin that is no longer
\* at this position stays where it is
InLoop(at, D) ==
    /\ pc = at
    /\ \E d \in D :
        \E s \in {enrollStep(Me, usingStream, 0, d)} :
          \E t \in {IF ~usingStream THEN After(s)
                     ELSE IF twin.pc = at THEN After(enrollStep(twin, FALSE, 0, d))
                     ELSE twin} :
            /\ UNCHANGED usingStream
            /\ Step(s, t)

\* case REMOVE_FINGER: one isFingerPressed() of the for loop
EnrollREMOVE_FINGER(D) == InLoop(REMOVE_FINGER, D)

\* case CAPTURE: powerCMOS(true)
EnrollCAPTURE_CMOS(D) == InLoop(CAPTURE, D)

\* case CAPTURE: captureFingerprint(true)
EnrollCAPTURE_capture(D) == InLoop("CAPTURE_2", D)

\* case ENROLL: powerCMOS(false)
EnrollENROLL_CMOS(D) == InLoop(ENROLL, D)

\* case ENROLL: createEnrollmentTemplate()
EnrollENROLL_template(D) == InLoop("ENROLL_2", D)

\* case COMPLETE: done = true, and the function returns success
EnrollCOMPLETE ==
    /\ pc = COMPLETE
    /\ \E c \in {completeStep(Me, usingStream)},
          c0 \in {IF twin.pc = COMPLETE THEN completeStep(twin, FALSE)
                  ELSE [m |-> twin.m, w |-> twin.w, msgs |-> <<>>]} :
        /\ Proceed(c.w, 0, "")
        /\ mRespStatus' = c.m.status
        /\ mRespParam' = c.m.param
        /\ mEnrollmentStage' = c.m.stage
        /\ rx' = c.m.rx
        /\ prompts' = c.msgs
        /\ twin' = IF twin.pc = COMPLETE
                   THEN [twin EXCEPT !.m = c0.m, !.w = c0.w,
                                     !.pc = NextPc(c0.w, ""), !.i = 0,
                                     !.ret = c0.w.success]
                   ELSE twin
    /\ visited' = (IF happy /\ Len(visited) < MaxVisited
                   THEN Append(visited, COMPLETE) ELSE visited)
    /\ UNCHANGED <<lastCall, lastSent, attempts, delays, rxPkt, sentCnt,
                   stage0, happy, enrollAcks, exchange, helper, usingStream,
                   history>>

(***************************************************************************)
(* Specifications                                                          *)
(***************************************************************************)
\* a sketch that calls the command-layer functions in any order
CommandNext ==
    \/ Open
    \/ SimpleCommand
    \/ StartEnrollment
    \/ CreateEnrollmentTemplate
    \/ IsFingerPressed

CommandSpec == Init /\ [][CommandNext]_vars

\* a sketch that calls enrollSequence again and again
EnrollNext ==
    \/ EnrollSTART(Deliveries)
    \/ EnrollREMOVE_FINGER(Deliveries)
    \/ EnrollCAPTURE_CMOS(Deliveries)
    \/ EnrollCAPTURE_capture(Deliveries)
    \/ EnrollENROLL_CMOS(Deliveries)
    \/ EnrollENROLL_template(Deliveries)
    \/ EnrollCOMPLETE

EnrollSpec == Init /\ [][EnrollNext]_vars

\* The same sketch with a device that answers at once or not at all.  The
\* sketch is the only thread and loop() never stops: a step that can be
\* taken is taken.
EnrollPromptNext ==
    \/ EnrollSTART(PromptDeliveries)
    \/ EnrollREMOVE_FINGER(PromptDeliveries)
    \/ EnrollCAPTURE_CMOS(PromptDeliveries)
    \/ EnrollCAPTURE_capture(PromptDeliveries)
    \/ EnrollENROLL_CMOS(PromptDeliveries)
    \/ EnrollENROLL_template(PromptDeliveries)
    \/ EnrollCOMPLETE

EnrollFairSpec ==
    Init /\ [][EnrollPromptNext]_vars /\ WF_vars(EnrollPromptNext)

\* a sketch that calls enrollSequence with or without an output function
SinkNext ==
    \/ EnrollSTART(PromptDeliveries)
    \/ EnrollSTART_out(PromptDeliveries)
    \/ EnrollREMOVE_FINGER(PromptDeliveries)
    \/ EnrollCAPTURE_CMOS(PromptDeliveries)
    \/ EnrollCAPTURE_capture(PromptDeliveries)
    \/ EnrollENROLL_CMOS(PromptDeliveries)
    \/ EnrollENROLL_template(PromptDeliveries)
    \/ EnrollCOMPLETE

SinkSpec == Init /\ [][SinkNext]_vars

(***************************************************************************)
(* The transport session on its own: recvResponsePkt is applied to a       *)
(* stream that is already in COMMS.                                        *)
(***************************************************************************)
\* a packet with the byte at place k (1..12) changed
MutatedAt(pkt, k) == [pkt EXCEPT ![k] = (@ + 1) % 256]

TestBase ==
    {DevResp(0, ACK), DevResp(513, ACK), DevResp(NACK_BAD_FINGER, NACK),
     DevResp(0, OddStatus), DevResp(0, 0)}

\* the packets as sent, and with one byte of the payload or of the checksum
\* changed
TestPackets == TestBase \cup {MutatedAt(p, k) : p \in TestBase, k \in 3..12}

\* stray bytes ahead of a packet: with and without the first byte of the
\* start marker
Garbage == {<<7>>, <<7, 9>>, <<RES_START_CODE_1, 7>>, <<7, RES_START_CODE_1>>,
            <<RES_START_CODE_1>>}

\* parameters: small ones, one with four different bytes, one with the
\* bytes of the start marker, the largest below 2^31
TestParams == {0, 1, 513, NACK_BAD_FINGER, 305419896, 1437226410, 2147483647}

\* packets laid out as send() lays out a code and a parameter
SentPackets ==
    {send(st, Dword(par), TRUE) : st \in {ACK, NACK}, par \in TestParams}

\* one packet, one packet after stray bytes, or two packets
TestStreams ==
    TestPackets
    \cup SentPackets
    \cup {g \o p : g \in Garbage, p \in TestBase}
    \cup {p \o q : p \in TestBase, q \in TestBase}

TransportInit == \E stream \in TestStreams : Constructed(stream)

\* one call of recvResponsePkt()
RecvResponsePkt ==
    \E r \in {recvResponsePkt(rx)} :
        /\ mRespStatus' = r.status
        /\ mRespParam' = r.param
        /\ rx' = r.rest
        /\ rxPkt' = r.pkt
        /\ lastCall' = "recvResponsePkt"
        /\ lastRet' = r.done
        /\ UNCHANGED <<mEnrollmentStage, locals, lastSent, attempts, delays,
                       sentCnt, stage0, visited, happy, enrollAcks, exchange,
                       helper, workflow>>

TransportNext == RecvResponsePkt

TransportSpec == TransportInit /\ [][TransportNext]_vars

(***************************************************************************)
(* The private helpers on their own: each step calls one of them with      *)
(* arguments taken from the test sets; input holds the arguments and       *)
(* output the value.                                                       *)
(***************************************************************************)
TestBytes == {0, 1, 18, 85, 127, 128, 170, 255}

TestWords == {a * 256 + b : a \in TestBytes, b \in TestBytes}

EdgeWords == {a * 256 + b : a \in {0, 1, 128, 255}, b \in {0, 18, 128, 255}}

TestDwords == {<<hi, lo>> : hi \in EdgeWords, lo \in EdgeWords}

\* arrays long enough for the 16-bit sum to wrap, a response packet, and
\* the empty array
TestArrays ==
    {[k \in 1..MaxArrayLen |-> 255], [k \in 1..MaxArrayLen |-> k % 256],
     DevResp(0, ACK), <<>>}

TestSizes == {0, 1, 10, RESP_PKT_SIZE, 257, 258, MaxArrayLen}

Commands ==
    {CMD_OPEN, CMD_CLOSE, CMD_CHANGE_BAUDRATE, CMD_CMOS_LED,
     CMD_GET_ENROLL_COUNT, CMD_CHECK_ENROLLED, CMD_ENROLL_START, CMD_ENROLL1,
     CMD_ENROLL2, CMD_ENROLL3, CMD_IS_PRESS_FINGER, CMD_DELETE_ID,
     CMD_DELETE_ALL, CMD_VERIFY, CMD_IDENTIFY, CMD_CAPTURE_FINGER}

SendParams ==
    {Dword(0), Dword(1), Dword(19), Dword(305419896), <<32768, 1>>,
     <<65535, 65535>>}

\* a helper is called with the arguments args and gives value
Helper(call, args, value) ==
    /\ lastCall' = call
    /\ input' = args
    /\ output' = value
    /\ UNCHANGED prev
    /\ UNCHANGED <<fields, locals, lastRet, lastSent, attempts, delays, rxPkt,
                   sentCnt, stage0, visited, happy, enrollAcks, exchange,
                   workflow>>

ComputeCheckSum ==
    \E arr \in TestArrays, size \in TestSizes :
        /\ size <= Len(arr)
        /\ Helper("computeCheckSum", <<arr, size>>, computeCheckSum(arr, size))

\* the flip, and the flip of the flip
FlipEndiannessWord ==
    \E v \in TestWords :
        Helper("flipEndianness(word)", v,
               <<flipEndiannessWord(v), flipEndiannessWord(flipEndiannessWord(v))>>)

FlipEndiannessDword ==
    \E w \in TestDwords :
        Helper("flipEndianness(dword)", w,
               <<flipEndiannessDword(w),
                 flipEndiannessDword(flipEndiannessDword(w))>>)

\* send(cmd, param) with the default isBigEndian = true
Send ==
    \E cmd \in Commands, param \in SendParams :
        Helper("send", <<cmd, param>>, send(cmd, param, TRUE))

CodecNext ==
    \/ ComputeCheckSum
    \/ FlipEndiannessWord
    \/ FlipEndiannessDword
    \/ Send

CodecSpec == Init /\ [][CodecNext]_vars

(***************************************************************************)
(* A device that answers every command with one valid response.  The       *)
(* response to one command may come after that command has given up; the   *)
(* response to every later command comes within its receive loop.  The     *)
(* sketch goes on calling commands for ever.                               *)
(***************************************************************************)
ValidResponses ==
    {DevResp(0, ACK), DevResp(513, ACK), DevResp(NACK_BAD_FINGER, NACK)}

\* a command whose response arrives only after its receive loop has ended
LateResponse ==
    /\ rx = <<>>
    /\ \E d \in At(ValidResponses, {TIMEOUT + 1}) :
          \E r \in {getEnrollCount(Self, d), identify(Self, d)} : Call(r, <<>>)

\* a command whose response arrives before the first or the last poll
TimelyResponse ==
    \E d \in At(ValidResponses, {1, TIMEOUT}) :
        \E r \in {getEnrollCount(Self, d), identify(Self, d)} : Call(r, <<>>)

DesyncNext ==
    \/ LateResponse
    \/ TimelyResponse

DesyncSpec == Init /\ [][DesyncNext]_vars /\ WF_vars(DesyncNext)

(***************************************************************************)
(* A sketch that repeats the read-only checks.  The device answers every   *)
(* command with one valid response that is in COMMS, whole, before the     *)
(* first or before the last poll.                                          *)
(***************************************************************************)
\* the outcome of the last call
Outcome ==
    [call |-> lastCall, input |-> input, heard |-> arrived, ret |-> lastRet,
     status |-> mRespStatus, param |-> mRespParam, stage |-> mEnrollmentStage]

ReadOnlyCheck ==
    \E d \in At(ValidResponses, {1, TIMEOUT}) :
        \/ Returning(isFingerPressed(Self, d), <<>>, <<>>) /\ prev' = Outcome
        \/ Returning(getEnrollCount(Self, d), <<>>, <<>>) /\ prev' = Outcome
        \/ \E id \in IDs :
              Returning(isIDEnrolled(Self, id, d), <<id>>, <<>>) /\ prev' = Outcome

ReadOnlyNext == ReadOnlyCheck

ReadOnlySpec == Init /\ [][ReadOnlyNext]_vars

(***************************************************************************)
(* Properties                                                              *)
(***************************************************************************)
\* enrollSequence has returned (lastRet is what it returned)
Returned == pc = "idle" /\ lastCall = "enrollSequence"

IsPrefix(a, b) == Len(a) <= Len(b) /\ a = SubSeq(b, 1, Len(a))

HappyPath ==
    <<START, REMOVE_FINGER, CAPTURE, ENROLL, REMOVE_FINGER, CAPTURE, ENROLL,
      REMOVE_FINGER, CAPTURE, ENROLL, COMPLETE>>

TemplateCmds == {CMD_ENROLL1, CMD_ENROLL2, CMD_ENROLL3}

\* C1: while every command of enrollSequence is acknowledged and every
\* finger poll reports no finger, the states are entered in the order of the
\* happy path, and the function returns true after all eleven of them with
\* the enrollment stage 3.
C1_HappyPath ==
    (lastCall = "enrollSequence" /\ happy) =>
        /\ IsPrefix(visited, HappyPath)
        /\ pc = "idle" => (visited = HappyPath /\ lastRet /\ mEnrollmentStage = 3)

C1_Witness ==
    Returned /\ happy /\ lastRet /\ visited = HappyPath /\ mEnrollmentStage = 3

\* C2: enrollSequence returns true only if the exchanges it saw acknowledged
\* are begin-enrollment and then ENROLL1, ENROLL2, ENROLL3, once each and in
\* that order, and the enrollment stage is 3.  (Acknowledged: the exchange
\* of that command ended with the stored status true.)
C2_ThreeTemplates ==
    (Returned /\ lastRet) =>
        /\ enrollAcks = <<CMD_ENROLL_START, CMD_ENROLL1, CMD_ENROLL2, CMD_ENROLL3>>
        /\ mEnrollmentStage = 3

\* a successful enrollment that needed a retry on its way
C2_Witness == Returned /\ lastRet /\ ~happy /\ Len(enrollAcks) = 4

\* C3: in ENROLL with the illumination switched off successfully, a template
\* command that fails with NACK_ENROLL_FAILED or NACK_BAD_FINGER sends the
\* workflow to CAPTURE without ending it, and leaves the stage as it was.
C3_RecoverableBadImage ==
    [][(/\ pc = "ENROLL_2"
        /\ ~done
        /\ lastSent' \in TemplateCmds
        /\ ~mRespStatus'
        /\ mRespParam' \in {NACK_ENROLL_FAILED, NACK_BAD_FINGER})
       => (/\ pc' = CAPTURE
           /\ state' = CAPTURE
           /\ ~done'
           /\ mEnrollmentStage' = mEnrollmentStage)]_vars

C3_Witness ==
    /\ pc = CAPTURE
    /\ lastCall = "enrollSequence"
    /\ lastSent \in TemplateCmds
    /\ ~mRespStatus
    /\ mRespParam \in {NACK_ENROLL_FAILED, NACK_BAD_FINGER}

\* the checksum a complete packet carries differs from the sum of its first
\* ten bytes modulo 65536
BadChecksum(pkt) ==
    (pkt[1] + pkt[2] + pkt[3] + pkt[4] + pkt[5] + pkt[6] + pkt[7] + pkt[8]
        + pkt[9] + pkt[10]) % 65536 # pkt[11] + 256 * pkt[12]

\* C4: when the capture exchange of CAPTURE ends with the stored code
\* NACK_COMM_ERR, enrollSequence returns false in that very step: the
\* capture command is the last command it has sent.
C4_FatalCommError ==
    [][(pc = "CAPTURE_2" /\ ~mRespStatus' /\ mRespParam' = NACK_COMM_ERR)
       => (/\ pc' = "idle"
           /\ ~lastRet'
           /\ lastSent' = CMD_CAPTURE_FINGER)]_vars

\* returned after a capture whose response failed the checksum test
C4_Witness ==
    /\ Returned
    /\ ~lastRet
    /\ state = CAPTURE
    /\ lastSent = CMD_CAPTURE_FINGER
    /\ mRespParam = NACK_COMM_ERR
    /\ rxPkt # <<>>
    /\ BadChecksum(rxPkt)

\* the code a failed exchange leaves behind, from what its receive loop saw
FailureCode(pkt) ==
    IF pkt = <<>> THEN NACK_NOT_RECVD
    ELSE IF BadChecksum(pkt) THEN NACK_COMM_ERR
    ELSE pkt[5] + 256 * pkt[6] + 65536 * pkt[7] + 16777216 * pkt[8]

\* C5: when begin-enrollment fails in START, enrollSequence returns false
\* having sent that one command, the stage is what it was, and the stored
\* code is the code of that failure (for a NACK packet, its parameter).
C5_IdUnavailable ==
    [][(pc = "idle" /\ lastCall' = "enrollSequence" /\ ~mRespStatus')
       => (/\ pc' = "idle"
           /\ ~lastRet'
           /\ sentCnt' = 1
           /\ lastSent' = CMD_ENROLL_START
           /\ mEnrollmentStage' = mEnrollmentStage
           /\ mRespParam' = FailureCode(rxPkt'))]_vars

C5_Witness ==
    /\ Returned
    /\ ~lastRet
    /\ sentCnt = 1
    /\ rxPkt = DevResp(NACK_IS_ALREADY_USED, NACK)
    /\ mRespParam = NACK_IS_ALREADY_USED
    /\ mEnrollmentStage = 2

Retried ==
    /\ lastCall = "enrollSequence"
    /\ \/ pc = REMOVE_FINGER /\ lastSent = CMD_IS_PRESS_FINGER /\ mRespStatus
       \/ pc = CAPTURE /\ lastSent = CMD_CAPTURE_FINGER /\ ~mRespStatus
       \/ pc = CAPTURE /\ lastSent \in TemplateCmds /\ ~mRespStatus

\* C7 as stated: enrollSequence, once called, eventually returns, whatever
\* the device and the user do.
C7_AlwaysTerminates == (pc # "idle") ~> (pc = "idle")

\* C7: every exchange of enrollSequence ends within TIMEOUT receive
\* attempts, and enrollSequence returns unless its recoverable transitions
\* keep recurring; with a device that has stopped answering it returns.
C7_TerminatesUnlessRetrying ==
    /\ [](attempts <= TIMEOUT)
    /\ []<>(pc = "idle") \/ []<>Retried
    /\ <>[](rxPkt = <<>>) => []<>(pc = "idle")

\* a finger that is still pressed has made REMOVE_FINGER start again
C7_Witness ==
    /\ lastCall = "enrollSequence"
    /\ pc = REMOVE_FINGER
    /\ lastSent = CMD_IS_PRESS_FINGER
    /\ mRespStatus
    /\ i = 0

\* a command-layer function has been called
Called == lastCall \notin {"constructor", "enrollSequence", "recvResponsePkt"}

\* one delay(WAITTIME) after each receive attempt that assembled no packet
DelayPerFailedAttempt ==
    delays = (IF rxPkt = <<>> THEN attempts ELSE attempts - 1)

C9_ChecksumMismatch ==
    (lastCall = "recvResponsePkt" /\ rxPkt # <<>> /\ BadChecksum(rxPkt))
        => (lastRet /\ ~mRespStatus /\ mRespParam = NACK_COMM_ERR)

\* a packet that carries ACK and a wrong checksum has been assembled
C9_Witness ==
    /\ lastCall = "recvResponsePkt"
    /\ rxPkt # <<>>
    /\ BadChecksum(rxPkt)
    /\ rxPkt[9] = ACK
    /\ ~mRespStatus

\* the parameter field of a packet, least significant byte first
ParamField(pkt) ==
    pkt[5] + 256 * pkt[6] + 65536 * pkt[7] + 16777216 * pkt[8]

\* C10 as stated: a packet whose checksum is right gives the stored status
\* true exactly when its status byte is ACK, and the stored status false
\* with its parameter as the stored code exactly when its status byte is
\* NACK.
C10_StatusDecoding ==
    (lastCall = "recvResponsePkt" /\ rxPkt # <<>> /\ ~BadChecksum(rxPkt))
        => /\ mRespStatus <=> rxPkt[9] = ACK
           /\ rxPkt[9] = NACK =>
                 (~mRespStatus /\ mRespParam = ParamField(rxPkt))

\* a complete response packet: the start marker, and the checksum of its
\* first ten bytes
ValidPacket(pkt) ==
    /\ Len(pkt) = RESP_PKT_SIZE
    /\ pkt[1] = RES_START_CODE_1
    /\ pkt[2] = RES_START_CODE_2
    /\ ~BadChecksum(pkt)

\* the last twelve bytes of a stream
Last12(s) == SubSeq(s, Len(s) - 11, Len(s))

\* fewer than twelve bytes of garbage, then a valid packet
GarbageThenPacket(s) ==
    /\ Len(s) > RESP_PKT_SIZE
    /\ Len(s) < 2 * RESP_PKT_SIZE
    /\ ValidPacket(Last12(s))

\* C11 as stated: a call of recvResponsePkt that finds garbage followed by
\* a valid packet in the stream returns true having assembled that packet,
\* and stores the status and the parameter that packet carries.
C11_Resynchronization ==
    [][GarbageThenPacket(rx) =>
          /\ lastRet'
          /\ rxPkt' = Last12(rx)
          /\ mRespParam' = ParamField(Last12(rx))
          /\ mRespStatus' = (Last12(rx)[9] # NACK)]_vars

\* C12 as stated: with a device that answers every command once, and only
\* one response late, from some command on every command reports the
\* response the device sent to it: the packet its receive loop assembles
\* is the packet that was delivered during that loop.
C12_NoPermanentDesync == <>[](rxPkt = arrived)

\* C13 as stated: a command sent on an empty stream, to which the device
\* delivers the twelve bytes of one valid ACK response before the last
\* poll of its receive loop, returns true, however the bytes are spread
\* over the polls.  (open and isFingerPressed, whose result depends on
\* more than the acknowledgement, are left aside.)
C13_ReliableExchange ==
    [][(/\ rx = <<>>
        /\ Called'
        /\ lastCall' \notin {"open", "isFingerPressed"}
        /\ ValidPacket(arrived')
        /\ arrived'[9] = ACK) => lastRet']_vars

\* C14: a packet that carries a parameter p and a status s (ACK or NACK) in
\* the layout send() gives to its parameter and code, with the checksum
\* send() computes, is decoded by recvResponsePkt to the stored parameter
\* p and the stored status (s = ACK).
C14_RoundTrip ==
    \A st \in {ACK, NACK}, par \in TestParams :
        (lastCall = "recvResponsePkt" /\ rxPkt = send(st, Dword(par), TRUE))
            => (lastRet /\ mRespParam = par /\ mRespStatus = (st = ACK))

\* a NACK with four different parameter bytes has been decoded
C14_Witness ==
    /\ lastCall = "recvResponsePkt"
    /\ rxPkt = send(NACK, Dword(305419896), TRUE)
    /\ mRespParam = 305419896
    /\ ~mRespStatus

\* the arithmetic sum of b[lo..hi]
RECURSIVE SumBytes(_, _, _)
SumBytes(b, lo, hi) ==
    IF hi < lo THEN 0
    ELSE IF hi = lo THEN b[lo]
    ELSE SumBytes(b, lo, (lo + hi) \div 2) + SumBytes(b, (lo + hi) \div 2 + 1, hi)

\* C15: computeCheckSum(b, n) is the sum of b[0..n) modulo 65536.
C15_CheckSumWraps ==
    lastCall = "computeCheckSum"
        => output = SumBytes(input[1], 1, input[2]) % 65536

\* a sum beyond 16 bits has been computed
C15_Witness ==
    /\ lastCall = "computeCheckSum"
    /\ SumBytes(input[1], 1, input[2]) > 65535
    /\ output < 65536

\* the bytes of a word and of a dword, most significant first
BytesOfWord(v) == <<v \div 256, v % 256>>
BytesOfDword(w) == BytesOfWord(w[1]) \o BytesOfWord(w[2])

\* the sequence s in reverse order
Reverse(s) == [k \in 1..Len(s) |-> s[Len(s) + 1 - k]]

\* C16: flipEndianness applied twice gives the value back, for words and
\* for dwords; the flip of a word has its two bytes swapped and the flip
\* of a dword its four bytes in reverse order, within 16 and 32 bits.
C16_FlipInvolution ==
    /\ lastCall = "flipEndianness(word)" =>
          /\ output[2] = input
          /\ output[1] \in 0..65535
          /\ BytesOfWord(output[1]) = Reverse(BytesOfWord(input))
    /\ lastCall = "flipEndianness(dword)" =>
          /\ output[2] = input
          /\ output[1][1] \in 0..65535
          /\ output[1][2] \in 0..65535
          /\ BytesOfDword(output[1]) = Reverse(BytesOfDword(input))

\* a dword with four different bytes has been flipped
C16_Witness ==
    /\ lastCall = "flipEndianness(dword)"
    /\ input = <<274, 33023>>
    /\ output[1] # input

\* the first ten bytes of a command packet whose fields are laid out by
\* the given byte orders of a word and of a dword
PacketBody(cmd, param, wordBytes(_), dwordBytes(_)) ==
    <<CMD_START_CODE_1, CMD_START_CODE_2>> \o wordBytes(1)
        \o dwordBytes(param) \o wordBytes(cmd)

\* most significant byte first
BigEndianWord(v) == BytesOfWord(v)
BigEndianDword(w) == BytesOfDword(w)

\* least significant byte first
LittleEndianWord(v) == Reverse(BytesOfWord(v))
LittleEndianDword(w) == Reverse(BytesOfDword(w))

\* C17 as stated: send(c, p) writes 12 bytes, the marker 0x55 0xAA, the
\* device identifier 0x0001, the parameter, the command code and the
\* checksum of the first ten bytes, every field most significant byte first.
C17_PacketLayoutBigEndian ==
    lastCall = "send" =>
        LET body == PacketBody(input[1], input[2], BigEndianWord, BigEndianDword)
        IN  output = body \o BigEndianWord(SumBytes(body, 1, 10) % 65536)

\* C17: send(c, p) writes 12 bytes, the marker 0x55 0xAA, the device
\* identifier 0x0001, the parameter, the command code and the checksum of
\* the first ten bytes, every field least significant byte first.
C17_PacketLayout ==
    lastCall = "send" =>
        LET body == PacketBody(input[1], input[2], LittleEndianWord,
                               LittleEndianDword)
        IN  /\ Len(output) = 12
            /\ output = body \o LittleEndianWord(SumBytes(body, 1, 10) % 65536)

\* a parameter of four different bytes has been sent
C17_Witness ==
    /\ lastCall = "send"
    /\ input = <<CMD_ENROLL_START, Dword(305419896)>>
    /\ SubSeq(output, 5, 8) = <<120, 86, 52, 18>>

\* C18: after a command-layer call has returned, the value it returned is
\* the stored status, and when it returned false the stored code is the
\* code of the failure of this call: NACK_NOT_RECVD when no packet was
\* assembled, NACK_COMM_ERR for a checksum mismatch, NACK_FINGER_IS_NOT_PRESSED
\* for an acknowledged finger poll with a non-zero parameter, and otherwise
\* the parameter of the packet received.
C18_ReturnIsStatus ==
    Called =>
        /\ lastRet <=> mRespStatus
        /\ ~lastRet =>
              mRespParam =
                  IF lastCall = "isFingerPressed" /\ rxPkt # <<>>
                     /\ ~BadChecksum(rxPkt) /\ rxPkt[9] # NACK
                  THEN NACK_FINGER_IS_NOT_PRESSED
                  ELSE FailureCode(rxPkt)

\* C19: once enrollSequence has met a fatal failure (done is set with
\* success false) it has returned: the failed exchange is the last one it
\* made, so no further command follows it and the stored status and code
\* are those of that failure.
C19_FailFast ==
    (lastCall = "enrollSequence" /\ done /\ ~success) =>
        (pc = "idle" /\ ~mRespStatus)

\* a data packet of recvDataPkt(24): 30 bytes, the marker 0x5A 0xA5 and a
\* checksum, least significant byte first, that is the sum of the first 28
DataPacketReceived(pkt) ==
    /\ Len(pkt) = 24 + DATA_PKT_ADD
    /\ SubSeq(pkt, 1, 2) = <<DATA_START_CODE_1, DATA_START_CODE_2>>
    /\ SumBytes(pkt, 1, 28) % 65536 = pkt[29] + 256 * pkt[30]

\* the bytes mDataPkt[8..23] that open inspects
Inspected(pkt) == SubSeq(pkt, 9, 24)

\* C20: open(true) returns true exactly when the response is an ACK, a
\* data packet with a 24-byte payload and a matching checksum is then
\* received and its inspected bytes are not all zero; open(false) asks for
\* no data packet (parameter 0), reads none, and returns the stored status.
C20_OpenChecksDevice ==
    lastCall = "open" =>
        IF input[1]
        THEN /\ SubSeq(output, 5, 8) = <<1, 0, 0, 0>>
             /\ lastRet <=>
                   /\ mRespStatus
                   /\ DataPacketReceived(dataPkt)
                   /\ \E k \in 1..16 : Inspected(dataPkt)[k] # 0
        ELSE /\ SubSeq(output, 5, 8) = <<0, 0, 0, 0>>
             /\ dataPkt = <<>>
             /\ lastRet <=> mRespStatus

\* open(true) has returned true on a data packet whose only non-zero byte
\* is the last one inspected
C20_Witness ==
    /\ lastCall = "open"
    /\ input[1]
    /\ lastRet
    /\ dataPkt = DevData(OnlyAt(23))

ReadOnlyCalls == {"isFingerPressed", "getEnrollCount", "isIDEnrolled"}

\* the last two calls were the same read-only check with the same
\* argument, answered by the device with the same response
Repeated ==
    /\ lastCall \in ReadOnlyCalls
    /\ prev.call = lastCall
    /\ prev.input = input
    /\ prev.heard = arrived

C23_PollErrorFatal ==
    (lastCall = "enrollSequence" /\ pollErr) =>
        /\ pc \in {REMOVE_FINGER, "idle"}
        /\ pc = "idle" => ~lastRet

\* a step of enrollSequence that made a finger poll
Polled == pc = REMOVE_FINGER /\ lastCall' = "enrollSequence"

\* C24: enrollSequence goes from REMOVE_FINGER to CAPTURE only with the
\* fifth consecutive finger poll that returned false, that poll storing
\* NACK_FINGER_IS_NOT_PRESSED; a poll that reports a finger keeps the state at
\* REMOVE_FINGER and restarts the count; CAPTURE is entered only from
\* REMOVE_FINGER, or again after a failed capture or a failed template, so
\* the first capture and every capture after an acknowledged template
\* command follow such a run of polls.
C24_FingerAbsentBeforeCapture ==
    [][/\ (Polled /\ pc' = CAPTURE) =>
             (i = 4 /\ ~lastRet' /\ ~mRespStatus'
              /\ mRespParam' = NACK_FINGER_IS_NOT_PRESSED)
       /\ (Polled /\ mRespStatus') => (pc' = REMOVE_FINGER /\ i' = 0)
       /\ (Polled /\ ~mRespStatus' /\ i < 4) => (pc' = REMOVE_FINGER /\ i' = i + 1)
       /\ (pc # CAPTURE /\ pc' = CAPTURE) =>
             \/ pc = REMOVE_FINGER
             \/ pc = "CAPTURE_2" /\ lastSent' = CMD_CAPTURE_FINGER /\ ~mRespStatus'
             \/ pc = "ENROLL_2" /\ lastSent' \in TemplateCmds /\ ~mRespStatus'
       /\ (pc = "idle" /\ lastCall' = "enrollSequence") => pc' \in {REMOVE_FINGER, "idle"}
       /\ (pc = "ENROLL_2" /\ mRespStatus') => pc' \in {REMOVE_FINGER, COMPLETE, "idle"}
      ]_vars

\* CAPTURE has been entered with the fifth poll of a round
C24_Witness ==
    /\ lastCall = "enrollSequence"
    /\ pc = CAPTURE
    /\ lastSent = CMD_IS_PRESS_FINGER
    /\ mRespParam = NACK_FINGER_IS_NOT_PRESSED
    /\ enrollAcks = <<CMD_ENROLL_START, CMD_ENROLL1>>

C26_DataPacketPolled ==
    [][(/\ rx = <<>>
        /\ lastCall' = "open"
        /\ input' = <<TRUE>>
        /\ arrived' = DevResp(0, ACK) \o DevData(GoodInfo))
       => lastRet']_vars

\* the receive loop of the last call assembled a packet whose checksum
\* matches and whose status byte is not NACK: the receive stored status true
Acknowledged(pkt) == pkt # <<>> /\ ~BadChecksum(pkt) /\ pkt[9] # NACK

C28_CaptureBeforeTemplate ==
    [][(pc \notin {"idle", COMPLETE} /\ lastSent' \in TemplateCmds)
       => (pc = "ENROLL_2" /\ captured /\ ~captured')]_vars

\* the second template has failed on a bad image: the capture is used up
\* and the workflow is back at CAPTURE
C28_Witness ==
    /\ pc = CAPTURE
    /\ lastSent = CMD_ENROLL2
    /\ ~mRespStatus
    /\ mRespParam = NACK_BAD_FINGER
    /\ ~captured
    /\ ledLast = "off"

\* C29: when enrollSequence has returned true, every CMOS LED command of the
\* call was acknowledged, and the LED command acknowledged last was the one
\* that switches the illumination off.
C29_LedAcknowledged ==
    (Returned /\ lastRet) => (ledAcked /\ ledLast = "off")

\* a complete enrollment: the third template was made with the light off
C29_Witness ==
    /\ Returned
    /\ lastRet
    /\ mEnrollmentStage = 3
    /\ lastSent = CMD_ENROLL3
    /\ ledAcked
    /\ ledLast = "off"

====
